---- MODULE Spec2Model ----
(***************************************************************************)
(* The research workflow of OrchestratorAgent (agents/orchestrator_agent.py) *)
(* with the search step of ResearchAgent (agents/research_agent.py):        *)
(* split_query, then collect_all_sources over the planned queries.          *)
(*                                                                          *)
(* Texts whose characters the code inspects (topic, requirements, the       *)
(* generation response, the queries, a source's content) are sequences of   *)
(* one-character strings; texts the code only compares (url, title) are     *)
(* strings.                                                                 *)
(***************************************************************************)
EXTENDS Integers, Sequences, FiniteSets

\* ---------------------------------------------------------------- texts

\* Python's None for an optional text, kept apart from every text (a text holds
\* one-character strings).
None == <<"None">>

\* f"\n\nRequirements: {requirements}": what is put before the requirements.
Separator == <<"\n", "\n", "R", "e", "q", "u", "i", "r", "e", "m", "e", "n", "t", "s", ":", " ">>

TopicShort == <<"a", "i">>
TopicLong == <<"s", "o", "l", "a", "r", " ", "p", "a", "n", "e", "l", "s">>
ReqShort == <<"e", "u">>
ReqLong == <<"c", "i", "t", "e">>

\* The requests execute_research_workflow is called with.
Topics == {TopicShort, TopicLong}
RequirementsGiven == {None, <<>>, ReqShort, ReqLong}
MaxQueryLengths == {10, 20}

\* Lines a generation response is made of.
LineNumbered == <<"1", ".", " ", "s", "o", "l", "a", "r", " ", "p", "o", "w", "e", "r", " ", "c", "o", "s", "t", "s">>
LineNumberedAgain == <<"2", ".", " ", "s", "o", "l", "a", "r", " ", "p", "o", "w", "e", "r", " ", "c", "o", "s", "t", "s">>
LineBullet == <<"-", " ", "w", "i", "n", "d", " ", "f", "a", "r", "m", " ", "o", "u", "t", "p", "u", "t">>
LineBulletDot == <<"-", " ", "w", "i", "n", "d", " ", "v", "s", ".", " ", "s", "o", "l", "a", "r", " ", "f", "a", "r", "m", "s">>
LineTooShort == <<"2", ".", " ", "t", "o", "o", " ", "s", "h", "o", "r", "t">>
LinePlain == <<"H", "e", "r", "e", " ", "a", "r", "e", " ", "q", "u", "e", "r", "i", "e", "s">>
NL == <<"\n">>
SP == <<" ">>

\* The texts the generation service answers the split prompt with.
SplitResponseTexts ==
    { <<>>,
      LinePlain,
      LineTooShort,
      LineNumbered,
      LineNumbered \o NL \o LineBullet,
      LineNumbered \o NL \o LineBulletDot,
      LineNumbered \o NL \o LineNumberedAgain,
      SP \o LinePlain \o NL \o SP \o SP \o LineBullet \o SP \o NL \o NL \o LineNumbered \o NL }

\* What the call of client.chat.completions.create and the read of
\* response.choices[0].message.content come to: the call raises, the content is
\* None, or the content is a text.
SplitOutcomes ==
    { [kind |-> "error", text |-> <<>>], [kind |-> "no_content", text |-> <<>>] }
      \cup { [kind |-> "text", text |-> t] : t \in SplitResponseTexts }

\* ------------------------------------------------------- str operations

IsSpace(c) == c \in {" ", "\n", "\t", "\r"}
IsDigit(c) == c \in {"0", "1", "2", "3", "4", "5", "6", "7", "8", "9"}

MinOf(S) == CHOOSE x \in S : \A y \in S : x <= y
MaxOf(S) == CHOOSE x \in S : \A y \in S : x >= y

\* s.strip()
Strip(s) ==
    LET keep == { i \in 1..Len(s) : ~IsSpace(s[i]) }
    IN  IF keep = {} THEN <<>> ELSE SubSeq(s, MinOf(keep), MaxOf(keep))

\* s.lstrip(chars)
LStrip(s, chars) ==
    LET keep == { i \in 1..Len(s) : s[i] \notin chars }
    IN  IF keep = {} THEN <<>> ELSE SubSeq(s, MinOf(keep), Len(s))

\* c in s
Contains(s, c) == \E i \in 1..Len(s) : s[i] = c

\* s.split(c): the pieces between the occurrences of c, empty pieces kept.
RECURSIVE Split(_, _)
Split(s, c) ==
    IF ~Contains(s, c) THEN << s >>
    ELSE LET i == MinOf({ k \in 1..Len(s) : s[k] = c })
         IN  << SubSeq(s, 1, i - 1) >> \o Split(SubSeq(s, i + 1, Len(s)), c)

\* s.split(c, 1)[-1]: what follows the first occurrence of c, or s without one.
AfterFirst(s, c) ==
    IF ~Contains(s, c) THEN s
    ELSE SubSeq(s, MinOf({ k \in 1..Len(s) : s[k] = c }) + 1, Len(s))

\* bool(requirements): None and the empty text are false.
Truthy(r) == r # None /\ r # <<>>

\* ---------------------------------------------------------- split_query

\* A parsed query is kept when it is longer than this.
MinQueryLen == 10

\* full_request: the topic, followed by the separator and the requirements when
\* requirements are given.
FullRequest(t, r) == IF Truthy(r) THEN t \o Separator \o r ELSE t

ShortEnoughStrict(t, r, m) == Len(FullRequest(t, r)) < m
ShortEnoughNoSeparator(t, r, m) == Len(t) + (IF Truthy(r) THEN Len(r) ELSE 0) <= m
\* if len(full_request) <= max_query_length
ShortEnough(t, r, m) == Len(FullRequest(t, r)) <= m

\* One line of the response: the query it contributes (a sequence of none or one).
ParseLine(raw) ==
    LET line == Strip(raw)
    IN  IF line # <<>> /\ (IsDigit(line[1]) \/ line[1] = "-")
        THEN LET query == IF Contains(line, ".")
                          THEN Strip(AfterFirst(line, "."))
                          ELSE Strip(LStrip(line, {"-", " "}))
             IN  IF query # <<>> /\ Len(query) > MinQueryLen THEN << query >> ELSE <<>>
        ELSE <<>>

RECURSIVE ParseLines(_)
ParseLines(lines) ==
    IF lines = <<>> THEN <<>> ELSE ParseLine(Head(lines)) \o ParseLines(Tail(lines))

\* The numbered list parsed from the stripped content.
ParseQueries(content) == ParseLines(Split(Strip(content), "\n"))

OrTopicDropped(t, qs) == qs
\* if not queries: queries = [topic]
OrTopic(t, qs) == IF qs = <<>> THEN << t >> ELSE qs

SplitTryUncaught(t, out) ==
    IF out.kind = "text"
    THEN [raised |-> FALSE, value |-> OrTopic(t, ParseQueries(out.text))]
    ELSE [raised |-> TRUE, value |-> <<>>]
\* The try block and its except Exception: what split_query returns for an
\* outcome of the generation call, and whether an exception leaves it.
SplitTry(t, out) ==
    IF out.kind = "text"
    THEN [raised |-> FALSE, value |-> OrTopic(t, ParseQueries(out.text))]
    ELSE [raised |-> FALSE, value |-> << t >>]

\* ------------------------------------------------------- search_sources

UrlA == "http://a.example"
SummaryUrl == "Tavily Summary"
SummaryTitle == "Search Summary"
ContentFirst == <<"o", "n", "e">>
ContentSecond == <<"t", "w", "o">>
ContentNoUrl == <<"n", "o">>
AnswerText == <<"s", "u", "m">>

\* The result dicts the search service returns: two results with one url and
\* different content, and a result without the key 'url'.
RawResults ==
    { [url |-> UrlA, title |-> "A", content |-> ContentFirst],
      [url |-> UrlA, title |-> "A", content |-> ContentSecond],
      [title |-> "N", content |-> ContentNoUrl] }

\* The most results a search may be asked for.
MaxSourcesPerQuery == 1

RawResultLists(n) == UNION { [1..k -> RawResults] : k \in 0..n }

\* The response dicts of tavily_client.search for max_results = n: with or
\* without 'results', with or without 'answer', the answer empty or a text.
SearchResponses(n) ==
    { [results |-> rs] : rs \in RawResultLists(n) }
      \cup { [results |-> rs, answer |-> a] :
                rs \in RawResultLists(n), a \in {<<>>, AnswerText} }
      \cup { [answer |-> a] : a \in {<<>>, AnswerText} }

\* d.get(k, default)
Get(d, k, default) == IF k \in DOMAIN d THEN d[k] ELSE default

\* source = {'url': result.get('url', ''), ...}
SourceOf(result) ==
    [url |-> Get(result, "url", ""),
     title |-> Get(result, "title", ""),
     content |-> Get(result, "content", <<>>)]

SearchError == "Error searching for sources"

\* The record search_sources makes of the answer.
SummarySource(answer) ==
    [url |-> SummaryUrl, title |-> SummaryTitle, content |-> answer]

\* What search_sources returns for a response: the results in their order, with
\* the summary inserted at index 0 when the response has a non-empty answer.
SourcesOf(response) ==
    LET results == IF "results" \in DOMAIN response
                   THEN [i \in 1..Len(response.results) |-> SourceOf(response.results[i])]
                   ELSE <<>>
    IN  IF "answer" \in DOMAIN response /\ response.answer # <<>>
        THEN << SummarySource(response.answer) >> \o results
        ELSE results

\* -------------------------------------------------- collect_all_sources

\* if url: the empty url is false.
HasUrl(source) == source.url # ""

MergeSourceNoSeen(acc, source) ==
    [all |-> Append(acc.all, source), seen |-> acc.seen \cup {source.url}]
MergeSourceForgets(acc, source) ==
    IF HasUrl(source) /\ source.url \notin acc.seen
    THEN [all |-> Append(acc.all, source), seen |-> acc.seen]
    ELSE IF ~HasUrl(source)
         THEN [all |-> Append(acc.all, source), seen |-> acc.seen]
         ELSE acc
MergeSourceLastWins(acc, source) ==
    IF HasUrl(source) /\ source.url \in acc.seen
    THEN [all |-> [i \in 1..Len(acc.all) |->
                     IF acc.all[i].url = source.url THEN source ELSE acc.all[i]],
          seen |-> acc.seen]
    ELSE [all |-> Append(acc.all, source), seen |-> acc.seen \cup {source.url}]
MergeSourceDedupsAll(acc, source) ==
    IF source.url \notin acc.seen
    THEN [all |-> Append(acc.all, source), seen |-> acc.seen \cup {source.url}]
    ELSE acc
MergeSourcePrepends(acc, source) ==
    IF HasUrl(source) /\ source.url \notin acc.seen
    THEN [all |-> << source >> \o acc.all, seen |-> acc.seen \cup {source.url}]
    ELSE IF ~HasUrl(source)
         THEN [all |-> << source >> \o acc.all, seen |-> acc.seen]
         ELSE acc
\* One pass of the body of "for source in sources" over the accumulator
\* (all_sources, seen_urls).
MergeSource(acc, source) ==
    IF HasUrl(source) /\ source.url \notin acc.seen
    THEN [all |-> Append(acc.all, source), seen |-> acc.seen \cup {source.url}]
    ELSE IF ~HasUrl(source)
         THEN [all |-> Append(acc.all, source), seen |-> acc.seen]
         ELSE acc

\* The lists of several searches, one after the other.
RECURSIVE Flatten(_)
Flatten(lists) == IF lists = <<>> THEN <<>> ELSE Head(lists) \o Flatten(Tail(lists))

RECURSIVE MergeFrom(_, _)
MergeFrom(acc, records) ==
    IF records = <<>> THEN acc
    ELSE MergeFrom(MergeSource(acc, Head(records)), Tail(records))

\* collect_all_sources as a function of what the searches return: both loops,
\* from the empty all_sources and seen_urls.
CollectAll(lists) == MergeFrom([all |-> <<>>, seen |-> {}], Flatten(lists)).all

\* ------------------------------------------- create_draft_from_sources

NoSourcesError == "No sources provided. Cannot create draft without sources."
DraftError == "Error creating draft"
DraftText == <<"d", "r", "a", "f", "t">>

\* What the generation call of create_draft_from_sources and the read of
\* response.choices[0].message.content come to.
DraftOutcomes ==
    { [kind |-> "error", text |-> <<>>],
      [kind |-> "no_content", text |-> <<>>],
      [kind |-> "text", text |-> DraftText] }

\* The characters of a source's content the prompt takes.
ContentCut == 1000

\* A prompt that takes the contents whole.
PromptSourcesUncut(srcs) ==
    [i \in 1..Len(srcs) |->
        [tag |-> i,
         title |-> Get(srcs[i], "title", "N/A"),
         url |-> Get(srcs[i], "url", "N/A"),
         content |-> Get(srcs[i], "content", <<>>)]]

\* The "Sources found" part of the prompt: for enumerate(sources, 1), the
\* entry "Source i" with the title, the url and content[:1000].
PromptSources(srcs) ==
    [i \in 1..Len(srcs) |->
        [tag |-> i,
         title |-> Get(srcs[i], "title", "N/A"),
         url |-> Get(srcs[i], "url", "N/A"),
         content |-> LET content == Get(srcs[i], "content", <<>>)
                     IN  SubSeq(content, 1, MinOf({Len(content), ContentCut}))]]

CreateDraftFromSourcesTolerant(srcs, out) ==
    IF out.kind = "error"
    THEN [raised |-> TRUE, error |-> DraftError, called |-> TRUE, value |-> None]
    ELSE [raised |-> FALSE, error |-> "", called |-> TRUE,
          value |-> IF out.kind = "no_content" THEN None ELSE out.text]
CreateDraftFromSourcesPartial(srcs, out) ==
    IF srcs = <<>>
    THEN [raised |-> TRUE, error |-> NoSourcesError, called |-> FALSE, value |-> None]
    ELSE [raised |-> FALSE, error |-> "", called |-> TRUE,
          value |-> IF out.kind = "text" THEN out.text ELSE None]
\* create_draft_from_sources for the sources it is given and the outcome of its
\* generation call: the ValueError for no sources is raised before the call;
\* an exception of the call is raised anew; the content, None included, is
\* returned as it is.
CreateDraftFromSources(srcs, out) ==
    IF srcs = <<>>
    THEN [raised |-> TRUE, error |-> NoSourcesError, called |-> FALSE, value |-> None]
    ELSE IF out.kind = "error"
         THEN [raised |-> TRUE, error |-> DraftError, called |-> TRUE, value |-> None]
         ELSE [raised |-> FALSE, error |-> "", called |-> TRUE,
               value |-> IF out.kind = "no_content" THEN None ELSE out.text]

\* ------------------------------------------------- validate_and_improve

\* The delimiters of the response. A response is a sequence whose elements are
\* these delimiters and single characters, so that a delimiter occurs in a
\* response exactly where it is an element of it.
TagDraft == "[IMPROVED_DRAFT]"
TagDraftEnd == "[/IMPROVED_DRAFT]"
TagChanges == "[CHANGES_SUMMARY]"
TagChangesEnd == "[/CHANGES_SUMMARY]"
Tags == {TagDraft, TagDraftEnd, TagChanges, TagChangesEnd}

\* The summaries the parse makes up.
SummaryNotFound == << "Changes summary not found in response." >>
SummaryNotParsed == << "Could not parse changes summary from response." >>
SummaryNotRecognized == << "Response format not recognized. Full response treated as draft." >>

ReflectError == "Error validating and improving draft"

\* The longest response the parse is checked on, in elements.
MaxResponseLen == 6

ResponseAlphabet == Tags \cup {"x", " "}
ResponseTexts(n) == UNION { [1..k -> ResponseAlphabet] : k \in 0..n }

\* The response the prompt asks for, and a response without delimiters.
ResponseWellFormed ==
    << TagDraft, "\n", "H", "e", "l", "l", "o", "\n", TagDraftEnd, "\n",
       TagChanges, "\n", "N", "o", "n", "e", "\n", TagChangesEnd >>
ResponsePlain == <<"j", "u", "s", "t", " ", "s", "o", "m", "e", " ", "t", "e", "x", "t">>

\* A response whose changes block is the sentence the parse keeps for a
\* split on "[IMPROVED_DRAFT]" without a second part.
ResponseEcho ==
    << TagDraft, "x", TagDraftEnd, TagChanges,
       "Could not parse changes summary from response.", TagChangesEnd >>

\* What the generation call of validate_and_improve and the read of
\* response.choices[0].message.content come to.
ReflectOutcomes ==
    { [kind |-> "error", text |-> <<>>],
      [kind |-> "no_content", text |-> <<>>],
      [kind |-> "text", text |-> ResponseWellFormed],
      [kind |-> "text", text |-> ResponsePlain] }

\* A parse that looks the closing tags up by index: it raises when one is
\* missing.
ParseResponseByIndex(text) ==
    IF Contains(text, TagDraft) /\ Contains(text, TagChanges)
    THEN LET parts == Split(text, TagDraft)
             changes_part == Split(parts[2], TagChanges)
         IN  IF \/ ~Contains(parts[2], TagDraftEnd)
                \/ Len(changes_part) > 1 /\ ~Contains(changes_part[2], TagChangesEnd)
             THEN [raised |-> TRUE, draft_part |-> <<>>, changes_summary |-> <<>>]
             ELSE [raised |-> FALSE,
                   draft_part |-> Strip(Split(parts[2], TagDraftEnd)[1]),
                   changes_summary |->
                       IF Len(changes_part) > 1
                       THEN Strip(Split(changes_part[2], TagChangesEnd)[1])
                       ELSE SummaryNotFound]
    ELSE [raised |-> FALSE, draft_part |-> text, changes_summary |-> SummaryNotRecognized]

\* A parse that does not strip what it cuts out.
ParseResponseNoStrip(text) ==
    IF Contains(text, TagDraft) /\ Contains(text, TagChanges)
    THEN LET parts == Split(text, TagDraft)
             changes_part == Split(parts[2], TagChanges)
         IN  [raised |-> FALSE,
              draft_part |-> Split(parts[2], TagDraftEnd)[1],
              changes_summary |->
                  IF Len(changes_part) > 1
                  THEN Split(changes_part[2], TagChangesEnd)[1]
                  ELSE SummaryNotFound]
    ELSE [raised |-> FALSE, draft_part |-> text, changes_summary |-> SummaryNotRecognized]

\* A parse that takes the first branch as soon as "[IMPROVED_DRAFT]" occurs.
ParseResponseDraftTagOnly(text) ==
    IF Contains(text, TagDraft)
    THEN LET parts == Split(text, TagDraft)
             changes_part == Split(parts[2], TagChanges)
         IN  [raised |-> FALSE,
              draft_part |-> Strip(Split(parts[2], TagDraftEnd)[1]),
              changes_summary |->
                  IF Len(changes_part) > 1
                  THEN Strip(Split(changes_part[2], TagChangesEnd)[1])
                  ELSE SummaryNotFound]
    ELSE [raised |-> FALSE, draft_part |-> text, changes_summary |-> SummaryNotRecognized]

\* A parse that takes the first branch only when the four tags occur.
ParseResponseRequiresClosing(text) ==
    IF \A tag \in Tags : Contains(text, tag)
    THEN LET parts == Split(text, TagDraft)
             changes_part == Split(parts[2], TagChanges)
         IN  [raised |-> FALSE,
              draft_part |-> Strip(Split(parts[2], TagDraftEnd)[1]),
              changes_summary |->
                  IF Len(changes_part) > 1
                  THEN Strip(Split(changes_part[2], TagChangesEnd)[1])
                  ELSE SummaryNotFound]
    ELSE [raised |-> FALSE, draft_part |-> text, changes_summary |-> SummaryNotRecognized]

\* A parse that looks for "[CHANGES_SUMMARY]" in the whole response.
ParseResponseWholeText(text) ==
    IF Contains(text, TagDraft) /\ Contains(text, TagChanges)
    THEN LET parts == Split(text, TagDraft)
             changes_part == Split(text, TagChanges)
         IN  [raised |-> FALSE,
              draft_part |-> Strip(Split(parts[2], TagDraftEnd)[1]),
              changes_summary |->
                  IF Len(changes_part) > 1
                  THEN Strip(Split(changes_part[2], TagChangesEnd)[1])
                  ELSE SummaryNotFound]
    ELSE [raised |-> FALSE, draft_part |-> text, changes_summary |-> SummaryNotRecognized]

\* A parse that wants a third part of the split on "[IMPROVED_DRAFT]".
ParseResponseThirdPart(text) ==
    IF Contains(text, TagDraft) /\ Contains(text, TagChanges)
    THEN LET parts == Split(text, TagDraft)
         IN  IF Len(parts) > 2
             THEN LET changes_part == Split(parts[2], TagChanges)
                  IN  [raised |-> FALSE,
                       draft_part |-> Strip(Split(parts[2], TagDraftEnd)[1]),
                       changes_summary |->
                           IF Len(changes_part) > 1
                           THEN Strip(Split(changes_part[2], TagChangesEnd)[1])
                           ELSE SummaryNotFound]
             ELSE [raised |-> FALSE, draft_part |-> text,
                   changes_summary |-> SummaryNotParsed]
    ELSE [raised |-> FALSE, draft_part |-> text, changes_summary |-> SummaryNotRecognized]

\* The parse of response_text into (draft_part, changes_summary).
ParseResponse(text) ==
    IF Contains(text, TagDraft) /\ Contains(text, TagChanges)
    THEN LET parts == Split(text, TagDraft)
         IN  IF Len(parts) > 1
             THEN LET changes_part == Split(parts[2], TagChanges)
                  IN  [raised |-> FALSE,
                       draft_part |-> Strip(Split(parts[2], TagDraftEnd)[1]),
                       changes_summary |->
                           IF Len(changes_part) > 1
                           THEN Strip(Split(changes_part[2], TagChangesEnd)[1])
                           ELSE SummaryNotFound]
             ELSE [raised |-> FALSE, draft_part |-> text,
                   changes_summary |-> SummaryNotParsed]
    ELSE [raised |-> FALSE, draft_part |-> text, changes_summary |-> SummaryNotRecognized]

\* A dict whose 'draft' is the revised draft.
WorkflowResultDraftRevised(d, improved, srcs, qs) ==
    [draft |-> improved[1], improved_draft |-> improved,
     sources_count |-> Len(srcs), queries_count |-> Len(qs)]

\* The dict execute_research_workflow returns: improved_draft is what
\* validate_and_improve returned, the pair (draft_part, changes_summary).
WorkflowResult(d, improved, srcs, qs) ==
    [draft |-> d, improved_draft |-> improved,
     sources_count |-> Len(srcs), queries_count |-> Len(qs)]

\* ---------------------------------------------------------------- state

NoOutcome == [kind |-> "none", text |-> <<>>]

\* The callers whose generation call raised, after a call with this outcome.
Raised(log, caller, out) == IF out.kind = "error" THEN Append(log, caller) ELSE log

\* The caller has not reported.
NoAnswer == [by |-> "none", success |-> FALSE]

\* The type of what validate_and_improve returns, "return draft_part,
\* changes_summary": a tuple.
ImprovedDraftType == "tuple"

\* f.write(results['draft']) and f.write(results['improved_draft']) go
\* through: write takes a str, and raises TypeError for None or a tuple.
ReportWritten(res) == res.draft # None /\ ImprovedDraftType = "str"

\* No invocation before this one.
NoRun == [run |-> FALSE]

\* Nothing returned yet.
NoResult == [returned |-> FALSE]

VARIABLES
    topic, requirements, max_query_length, max_sources_per_query,  \* the arguments
    pc,             \* where execute_research_workflow is
    error,          \* the exception that left it ("" for none)
    gen_log,        \* the generation calls made, by caller
    gen_errors,     \* the callers whose generation call raised
    gen_outcome,    \* the outcome of split_query's generation call
    queries,        \* what split_query returned
    qi,             \* collect_all_sources: the index of the query at hand
    sources,        \* what search_sources returned for it
    si,             \* the index of the source at hand
    all_sources, seen_urls,
    search_log,     \* the calls of search_sources: <<query, max_results>>
    fetched,        \* what search_sources returned, query by query
    prompt_sources, \* create_draft_from_sources: the sources in its prompt
    draft,          \* what create_draft_from_sources returned
    response_text,  \* validate_and_improve: the content of the response
    improved_draft, \* what validate_and_improve returned
    result,         \* what execute_research_workflow returned
    earlier,        \* the invocation made before on the same object, if any
    answer          \* what the caller of execute_research_workflow reported

args == << topic, requirements, max_query_length, max_sources_per_query >>
planning == << gen_log, gen_errors, gen_outcome, queries >>
collecting == << qi, sources, si, all_sources, seen_urls, search_log, fetched >>
reflecting == << prompt_sources, draft, response_text, improved_draft, result >>
vars == << args, pc, error, planning, collecting, reflecting, earlier, answer >>

Init ==
    /\ topic \in Topics
    /\ requirements \in RequirementsGiven
    /\ max_query_length \in MaxQueryLengths
    /\ max_sources_per_query \in 1..MaxSourcesPerQuery
    /\ pc = "split"
    /\ error = ""
    /\ gen_log = <<>>
    /\ gen_errors = <<>>
    /\ gen_outcome = NoOutcome
    /\ queries = <<>>
    /\ qi = 1
    /\ sources = <<>>
    /\ si = 1
    /\ all_sources = <<>>
    /\ seen_urls = {}
    /\ search_log = <<>>
    /\ fetched = <<>>
    /\ prompt_sources = <<>>
    /\ draft = None
    /\ response_text = <<>>
    /\ improved_draft = <<>>
    /\ result = NoResult
    /\ earlier = NoRun
    /\ answer = NoAnswer

\* split_query returns [topic] at once: no generation call.
SplitQueryShort ==
    /\ pc = "split"
    /\ ShortEnough(topic, requirements, max_query_length)
    /\ queries' = << topic >>
    /\ pc' = "collect"
    /\ UNCHANGED << args, earlier, answer, reflecting, error, gen_log, gen_errors, gen_outcome, collecting >>

\* split_query asks the generation service and parses its answer.
SplitQueryGenerate ==
    /\ pc = "split"
    /\ ~ShortEnough(topic, requirements, max_query_length)
    /\ \E out \in SplitOutcomes :
          LET ret == SplitTry(topic, out)
          IN  /\ gen_log' = Append(gen_log, "split_query")
              /\ gen_errors' = Raised(gen_errors, "split_query", out)
              /\ gen_outcome' = out
              /\ IF ret.raised
                 THEN pc' = "failed" /\ error' = "split_query" /\ queries' = queries
                 ELSE pc' = "collect" /\ error' = error /\ queries' = ret.value
    /\ UNCHANGED << args, earlier, answer, reflecting, collecting >>

\* A collect_all_sources that searches the first query every time.
SearchSourcesFirstQuery ==
    /\ pc = "collect"
    /\ qi <= Len(queries)
    /\ \E response \in SearchResponses(max_sources_per_query) :
          LET found == SourcesOf(response)
          IN  /\ sources' = found
              /\ fetched' = Append(fetched, found)
              /\ si' = 1
              /\ IF found = <<>>
                 THEN pc' = "collect" /\ qi' = qi + 1
                 ELSE pc' = "merge" /\ qi' = qi
    /\ search_log' = Append(search_log, << queries[1], max_sources_per_query >>)
    /\ UNCHANGED << args, earlier, answer, reflecting, error, planning, all_sources, seen_urls >>

\* collect_all_sources, the head of "for query in queries": search_sources is
\* called for the query at hand and returns its sources.
SearchSources ==
    /\ pc = "collect"
    /\ qi <= Len(queries)
    /\ \E response \in SearchResponses(max_sources_per_query) :
          LET found == SourcesOf(response)
          IN  /\ sources' = found
              /\ fetched' = Append(fetched, found)
              /\ si' = 1
              /\ IF found = <<>>
                 THEN pc' = "collect" /\ qi' = qi + 1
                 ELSE pc' = "merge" /\ qi' = qi
    /\ search_log' = Append(search_log, << queries[qi], max_sources_per_query >>)
    /\ UNCHANGED << args, earlier, answer, reflecting, error, planning, all_sources, seen_urls >>

\* A collect_all_sources that absorbs the failure of one search and goes on
\* with the next query.
SearchSourcesFailsAbsorbed ==
    /\ pc = "collect"
    /\ qi <= Len(queries)
    /\ search_log' = Append(search_log, << queries[qi], max_sources_per_query >>)
    /\ qi' = qi + 1
    /\ UNCHANGED << args, earlier, answer, reflecting, pc, error, planning, sources, si, all_sources,
                    seen_urls, fetched >>

\* tavily_client.search raises: search_sources raises anew, and nothing in
\* collect_all_sources or execute_research_workflow catches it.
SearchSourcesFails ==
    /\ pc = "collect"
    /\ qi <= Len(queries)
    /\ search_log' = Append(search_log, << queries[qi], max_sources_per_query >>)
    /\ pc' = "failed"
    /\ error' = SearchError
    /\ UNCHANGED << args, earlier, answer, reflecting, planning, qi, sources, si, all_sources, seen_urls, fetched >>

\* One pass of "for source in sources".
MergeStep ==
    /\ pc = "merge"
    /\ si <= Len(sources)
    /\ LET acc == MergeSource([all |-> all_sources, seen |-> seen_urls], sources[si])
       IN  all_sources' = acc.all /\ seen_urls' = acc.seen
    /\ IF si = Len(sources)
       THEN pc' = "collect" /\ qi' = qi + 1 /\ si' = si
       ELSE pc' = "merge" /\ qi' = qi /\ si' = si + 1
    /\ UNCHANGED << args, earlier, answer, reflecting, error, planning, sources, search_log, fetched >>

\* A workflow that hands the sources to the reflection at once.
CollectReturnSkipsDraft ==
    /\ pc = "collect"
    /\ qi > Len(queries)
    /\ pc' = "reflect"
    /\ UNCHANGED << args, earlier, answer, reflecting, error, planning, collecting >>

\* return all_sources: the queries are exhausted.
CollectReturn ==
    /\ pc = "collect"
    /\ qi > Len(queries)
    /\ pc' = "draft"
    /\ UNCHANGED << args, earlier, answer, reflecting, error, planning, collecting >>

\* create_draft_from_sources is called with all_sources.
CreateDraft ==
    /\ pc = "draft"
    /\ \E out \in DraftOutcomes :
          LET ret == CreateDraftFromSources(all_sources, out)
          IN  /\ gen_log' = IF ret.called
                            THEN Append(gen_log, "create_draft_from_sources")
                            ELSE gen_log
              /\ gen_errors' = IF all_sources # <<>>
                               THEN Raised(gen_errors, "create_draft_from_sources", out)
                               ELSE gen_errors
              /\ prompt_sources' = IF all_sources # <<>>
                                   THEN PromptSources(all_sources)
                                   ELSE prompt_sources
              /\ IF ret.raised
                 THEN pc' = "failed" /\ error' = ret.error /\ draft' = draft
                 ELSE pc' = "reflect" /\ error' = error /\ draft' = ret.value
    /\ UNCHANGED << args, earlier, answer, gen_outcome, queries, collecting,
                    response_text, improved_draft, result >>

\* validate_and_improve is called with the draft and makes its generation
\* call: an exception of the call, or of the test of a content that is None,
\* is raised anew.
ReflectCall ==
    /\ pc = "reflect"
    /\ \E out \in ReflectOutcomes :
          /\ gen_log' = Append(gen_log, "validate_and_improve")
          /\ gen_errors' = Raised(gen_errors, "validate_and_improve", out)
          /\ IF out.kind = "text"
             THEN pc' = "parse" /\ error' = error /\ response_text' = out.text
             ELSE pc' = "failed" /\ error' = ReflectError
                  /\ response_text' = response_text
    /\ UNCHANGED << args, earlier, answer, gen_outcome, queries, collecting,
                    prompt_sources, draft, improved_draft, result >>

\* validate_and_improve parses the response and returns, and
\* execute_research_workflow returns its dict.
ReflectParse ==
    /\ pc = "parse"
    /\ LET ret == ParseResponse(response_text)
           pair == << ret.draft_part, ret.changes_summary >>
       IN  IF ret.raised
           THEN /\ pc' = "failed" /\ error' = ReflectError
                /\ UNCHANGED << improved_draft, result >>
           ELSE /\ pc' = "done" /\ error' = error
                /\ improved_draft' = pair
                /\ result' = WorkflowResult(draft, pair, all_sources, queries)
    /\ UNCHANGED << args, earlier, answer, planning, collecting, prompt_sources, draft, response_text >>

\* What an invocation was given: its arguments and what the generation and
\* search services answered.
Given ==
    << topic, requirements, max_query_length, max_sources_per_query,
       gen_outcome, fetched, Len(search_log), gen_errors, draft, response_text >>

\* What an invocation came to: its queries, its sources, its end and its
\* result.
Outcome == << queries, all_sources, pc, error, improved_draft, result >>

\* An object that keeps the seen urls from one invocation to the next.
InvokeAgainKeepsSeen ==
    /\ pc \in {"done", "failed"}
    /\ earlier = NoRun
    /\ earlier' = [run |-> TRUE, given |-> Given, outcome |-> Outcome, seen |-> seen_urls]
    /\ pc' = "split"
    /\ error' = ""
    /\ gen_log' = <<>>
    /\ gen_errors' = <<>>
    /\ gen_outcome' = NoOutcome
    /\ queries' = <<>>
    /\ qi' = 1
    /\ sources' = <<>>
    /\ si' = 1
    /\ all_sources' = <<>>
    /\ seen_urls' = seen_urls
    /\ search_log' = <<>>
    /\ fetched' = <<>>
    /\ prompt_sources' = <<>>
    /\ draft' = None
    /\ response_text' = <<>>
    /\ improved_draft' = <<>>
    /\ result' = NoResult
    /\ UNCHANGED << args, answer >>

\* execute_research_workflow is called once more on the same object with the
\* same arguments: the object keeps nothing of an invocation, every variable
\* of it is a local made anew (all_sources = [], seen_urls = set()).
InvokeAgain ==
    /\ pc \in {"done", "failed"}
    /\ earlier = NoRun
    /\ earlier' = [run |-> TRUE, given |-> Given, outcome |-> Outcome, seen |-> seen_urls]
    /\ pc' = "split"
    /\ error' = ""
    /\ gen_log' = <<>>
    /\ gen_errors' = <<>>
    /\ gen_outcome' = NoOutcome
    /\ queries' = <<>>
    /\ qi' = 1
    /\ sources' = <<>>
    /\ si' = 1
    /\ all_sources' = <<>>
    /\ seen_urls' = {}
    /\ search_log' = <<>>
    /\ fetched' = <<>>
    /\ prompt_sources' = <<>>
    /\ draft' = None
    /\ response_text' = <<>>
    /\ improved_draft' = <<>>
    /\ result' = NoResult
    /\ UNCHANGED << args, answer >>

Next ==
    \/ SplitQueryShort
    \/ SplitQueryGenerate
    \/ SearchSources
    \/ SearchSourcesFails
    \/ MergeStep
    \/ CollectReturn
    \/ CreateDraft
    \/ ReflectCall
    \/ ReflectParse

Spec == Init /\ [][Next]_vars

\* submit_research after its call of execute_research_workflow: an exception
\* of the workflow or of the writing of the report is caught and answered
\* with success false and status 500; otherwise the files are written, the
\* history row is stored and the answer has success true.
SubmitResearch ==
    /\ pc \in {"done", "failed"}
    /\ answer' = [by |-> "submit_research",
                  success |-> pc = "done" /\ ReportWritten(result)]
    /\ pc' = "reported"
    /\ UNCHANGED << args, error, planning, collecting, reflecting, earlier >>

\* main with --output after its call of execute_research_workflow: an
\* exception of the workflow or of the writing of the file is caught and
\* main returns 1; otherwise it returns 0.
MainWithOutput ==
    /\ pc \in {"done", "failed"}
    /\ answer' = [by |-> "main", success |-> pc = "done" /\ ReportWritten(result)]
    /\ pc' = "reported"
    /\ UNCHANGED << args, error, planning, collecting, reflecting, earlier >>

\* The workflow with its callers.
NextCaller == Next \/ SubmitResearch \/ MainWithOutput

SpecCaller == Init /\ [][NextCaller]_vars

\* Two invocations on one object, of a topic short enough to be its own
\* query.
InitTwice ==
    /\ Init
    /\ topic = TopicShort
    /\ requirements = None
    /\ max_query_length = 20

\* split_query makes no generation call for such a topic.
NextTwice ==
    \/ SplitQueryShort
    \/ SearchSources
    \/ SearchSourcesFails
    \/ MergeStep
    \/ CollectReturn
    \/ CreateDraft
    \/ ReflectCall
    \/ ReflectParse
    \/ InvokeAgain

SpecTwice == InitTwice /\ [][NextTwice]_vars

\* The parse alone, on every response of at most MaxResponseLen elements: the
\* workflow stands where validate_and_improve has read the content of its
\* response, after a plan of one query and a collection of one source.
InitParse ==
    /\ topic = TopicShort
    /\ requirements = None
    /\ max_query_length = 20
    /\ max_sources_per_query = 1
    /\ pc = "parse"
    /\ error = ""
    /\ gen_log = << "create_draft_from_sources", "validate_and_improve" >>
    /\ gen_errors = <<>>
    /\ gen_outcome = NoOutcome
    /\ queries = << TopicShort >>
    /\ qi = 2
    /\ sources = << SourceOf([url |-> UrlA, title |-> "A", content |-> ContentFirst]) >>
    /\ si = 1
    /\ all_sources = sources
    /\ seen_urls = {UrlA}
    /\ search_log = << << TopicShort, 1 >> >>
    /\ fetched = << sources >>
    /\ prompt_sources = PromptSources(all_sources)
    /\ draft = DraftText
    /\ response_text \in ResponseTexts(MaxResponseLen)
                           \cup {ResponseWellFormed, ResponsePlain, ResponseEcho}
    /\ improved_draft = <<>>
    /\ result = NoResult
    /\ earlier = NoRun
    /\ answer = NoAnswer

NextParse == ReflectParse

SpecParse == InitParse /\ [][NextParse]_vars

\* The most results of the one search before the synthesis alone.
MaxPromptSources == 3

\* A content one character longer than the prompt takes: the last one is cut.
UrlB == "http://b.example"
ContentLong == [i \in 1..(ContentCut + 1) |-> IF i <= ContentCut THEN "c" ELSE "z"]

\* The synthesis alone: the workflow stands where collect_all_sources has
\* returned, after a plan of one query whose search brought up to
\* MaxPromptSources results, a result with a long content among them.
InitDraft ==
    /\ topic = TopicShort
    /\ requirements = None
    /\ max_query_length = 20
    /\ max_sources_per_query = MaxPromptSources
    /\ pc = "draft"
    /\ error = ""
    /\ gen_log = <<>>
    /\ gen_errors = <<>>
    /\ gen_outcome = NoOutcome
    /\ queries = << TopicShort >>
    /\ qi = 2
    /\ \E rs \in UNION { [1..k -> RawResults \cup {[url |-> UrlB, title |-> "B",
                                                     content |-> ContentLong]}] :
                          k \in 0..MaxPromptSources } :
          LET found == SourcesOf([results |-> rs])
              acc == MergeFrom([all |-> <<>>, seen |-> {}], found)
          IN  /\ sources = found
              /\ si = IF found = <<>> THEN 1 ELSE Len(found)
              /\ all_sources = acc.all
              /\ seen_urls = acc.seen
              /\ fetched = << found >>
    /\ search_log = << << TopicShort, MaxPromptSources >> >>
    /\ prompt_sources = <<>>
    /\ draft = None
    /\ response_text = <<>>
    /\ improved_draft = <<>>
    /\ result = NoResult
    /\ earlier = NoRun
    /\ answer = NoAnswer

NextDraft == CreateDraft

SpecDraft == InitDraft /\ [][NextDraft]_vars

\* --------------------------------------------------------------- claims

\* len(requirements), 0 when there are none.
LenOf(r) == IF r = None THEN 0 ELSE Len(r)

\* split_query has returned.
Planned == pc # "split"

\* split_query has just returned to execute_research_workflow.
JustPlanned == pc = "collect" /\ search_log = <<>>

\* The generation calls split_query made.
SplitCalls == Len(SelectSeq(gen_log, LAMBDA c : c = "split_query"))

\* The generation call failed, or its content parsed to no query.
PlanningDegraded ==
    \/ gen_outcome.kind \in {"error", "no_content"}
    \/ gen_outcome.kind = "text" /\ ParseQueries(gen_outcome.text) = <<>>

\* The records the loops of collect_all_sources have passed so far.
Processed ==
    IF pc = "merge"
    THEN Flatten(SubSeq(fetched, 1, Len(fetched) - 1)) \o SubSeq(sources, 1, si - 1)
    ELSE Flatten(fetched)

\* collect_all_sources has returned.
Collected == pc = "draft"

NoUrlOnly(records) == SelectSeq(records, LAMBDA r : ~HasUrl(r))

\* a is b with some records removed: the order of the rest is b's.
RECURSIVE IsSubseq(_, _)
IsSubseq(a, b) ==
    IF a = <<>> THEN TRUE
    ELSE IF b = <<>> THEN FALSE
    ELSE IF Head(a) = Head(b) THEN IsSubseq(Tail(a), Tail(b))
    ELSE IsSubseq(a, Tail(b))

\* search_sources put a summary at the head of this list.
HasSummary(list) == list # <<>> /\ list[1].title = SummaryTitle

\* C1, as stated: whenever len(topic) + len(requirements) <= max_query_length,
\* split_query returns exactly [topic] and makes no generation call.
C1_AsStated ==
    Planned /\ Len(topic) + LenOf(requirements) <= max_query_length
        => queries = << topic >> /\ SplitCalls = 0

\* C1, amended: whenever the length of full_request (the topic, and for
\* non-empty requirements the 16-character separator and the requirements) is
\* <= max_query_length, split_query returns exactly [topic] and makes no
\* generation call.
C1_FullRequestFits ==
    Planned /\ Len(FullRequest(topic, requirements)) <= max_query_length
        => queries = << topic >> /\ SplitCalls = 0

\* C1's case: requirements are given, full_request is exactly max_query_length
\* long, and split_query has returned.
C1_Witness ==
    /\ Planned
    /\ Truthy(requirements)
    /\ Len(FullRequest(topic, requirements)) = max_query_length
    /\ queries = << topic >>

\* C2: split_query makes a generation call exactly when full_request is longer
\* than max_query_length, and then exactly one; otherwise it returns [topic].
C2_OneCallIffTooLong ==
    Planned =>
        /\ SplitCalls \in {0, 1}
        /\ JustPlanned => Len(gen_log) = SplitCalls
        /\ SplitCalls = 1 <=> Len(FullRequest(topic, requirements)) > max_query_length
        /\ Len(FullRequest(topic, requirements)) <= max_query_length
              => queries = << topic >>

\* C2's case: topic and requirements alone fit, the separator makes the request
\* too long, and the generation call was made.
C2_Witness ==
    /\ Planned
    /\ Truthy(requirements)
    /\ Len(topic) + Len(requirements) <= max_query_length
    /\ Len(FullRequest(topic, requirements)) > max_query_length
    /\ SplitCalls = 1

\* C3: no exception leaves split_query, and when the generation call fails or
\* its content parses to no query, split_query returns [topic].
C3_PlanningNeverFails ==
    /\ error # "split_query"
    /\ JustPlanned /\ PlanningDegraded => queries = << topic >>
    /\ Planned /\ search_log = <<>> => pc = "collect"

\* C3's case: the response had no content, and split_query has returned [topic]
\* to the workflow.
C3_Witness ==
    /\ pc = "collect"
    /\ gen_outcome.kind = "no_content"
    /\ queries = << topic >>

\* C4: the list of queries collect_all_sources is called with is not empty.
C4_QueriesNonEmpty == Planned => Len(queries) >= 1

\* C4's case: the response parsed to no query and collect_all_sources is
\* entered with the fallback list.
C4_Witness ==
    /\ pc = "collect"
    /\ search_log = <<>>
    /\ gen_outcome.kind = "text"
    /\ ParseQueries(gen_outcome.text) = <<>>
    /\ queries = << topic >>

\* C5: at every point of collect_all_sources and in what it returns, no two
\* records of all_sources have the same non-empty url.
C5_NoTwoWithSameUrl ==
    \A i, j \in 1..Len(all_sources) :
        i < j /\ HasUrl(all_sources[i]) => all_sources[i].url # all_sources[j].url

\* C5's case: the searches returned two records with one non-empty url, and
\* collect_all_sources has returned.
C5_Witness ==
    /\ Collected
    /\ \E i, j \in 1..Len(Flatten(fetched)) :
          /\ i < j
          /\ HasUrl(Flatten(fetched)[i])
          /\ Flatten(fetched)[i].url = Flatten(fetched)[j].url

\* C6: for every non-empty url among the records passed, all_sources holds
\* exactly one record with that url, and it is the first one passed.
C6_FirstSeenWins ==
    LET passed == Processed
    IN  \A k \in 1..Len(passed) :
            HasUrl(passed[k]) =>
                LET u == passed[k].url
                    first == MinOf({ j \in 1..Len(passed) : passed[j].url = u })
                    kept == { i \in 1..Len(all_sources) : all_sources[i].url = u }
                IN  /\ Cardinality(kept) = 1
                    /\ \A i \in kept : all_sources[i] = passed[first]

\* C6's case: two queries each returned a result with the same url and
\* different content, and collect_all_sources has returned.
C6_Witness ==
    /\ Collected
    /\ Len(fetched) = 2
    /\ \E i \in 1..Len(fetched[1]), j \in 1..Len(fetched[2]) :
          /\ fetched[1][i].url = UrlA
          /\ fetched[2][j].url = UrlA
          /\ fetched[1][i] # fetched[2][j]

\* The searches of two queries returned the same list.
SameResultsTwice == Collected /\ Len(fetched) = 2 /\ fetched[1] = fetched[2]

\* C7, as stated: merging the same results twice yields the same all_sources
\* as merging them once.
C7_AsStated == SameResultsTwice => all_sources = CollectAll(<< fetched[1] >>)

\* C7, amended: merging the same results twice yields what merging them once
\* yields, followed by the second copy of their records without url.
C7_IdempotentOnUrls ==
    SameResultsTwice =>
        all_sources = CollectAll(<< fetched[1] >>) \o NoUrlOnly(fetched[2])

\* C7's case: two searches returned the same list, which holds a record with a
\* url and a record without.
C7_Witness ==
    /\ SameResultsTwice
    /\ \E i, j \in 1..Len(fetched[1]) : HasUrl(fetched[1][i]) /\ ~HasUrl(fetched[1][j])

\* C8: the records without url in all_sources are the records without url the
\* loops have passed, every one of them, as many times as it was returned.
C8_NoUrlAlwaysKept == NoUrlOnly(all_sources) = NoUrlOnly(Processed)

\* C8's case: two searches returned the same record without url, and
\* all_sources holds it twice.
C8_Witness ==
    /\ Collected
    /\ \E i, j \in 1..Len(all_sources) :
          i < j /\ ~HasUrl(all_sources[i]) /\ all_sources[i] = all_sources[j]

\* C9: the summary record is never deduplicated: all_sources keeps one summary
\* record for every search that returned a summary.
C9_OneSummaryPerQuery ==
    Collected =>
        Cardinality({ i \in 1..Len(all_sources) : all_sources[i].title = SummaryTitle })
            = Cardinality({ q \in 1..Len(fetched) : HasSummary(fetched[q]) })

\* C10: all_sources is the records passed, in their order, with some removed.
C10_SubsequenceOfResults == IsSubseq(all_sources, Processed)

\* C10's case: a record was removed as a duplicate and all_sources holds
\* different records.
C10_Witness ==
    /\ Collected
    /\ Len(all_sources) < Len(Flatten(fetched))
    /\ \E i, j \in 1..Len(all_sources) : all_sources[i] # all_sources[j]

\* ------------------------------------------------- claims C11 to C20

\* A call of search_sources raised: it is logged and returned nothing.
SearchFailed == Len(search_log) > Len(fetched)

\* The generation calls of the synthesis and of the reflection.
DraftCalls == Len(SelectSeq(gen_log, LAMBDA c : c = "create_draft_from_sources"))
ReflectCalls == Len(SelectSeq(gen_log, LAMBDA c : c = "validate_and_improve"))

\* execute_research_workflow has returned its dict.
Returned == "draft" \in DOMAIN result

\* create_draft_from_sources has been called and has returned or raised.
DraftInvoked ==
    \/ pc \in {"reflect", "parse", "done"}
    \/ pc = "failed" /\ error \in {NoSourcesError, DraftError, ReflectError}

\* C11: once the search of one query has raised, the workflow has failed with
\* the search error, the failed search is the last one made (it is the search
\* of the query at hand), the synthesis and the reflection are not called,
\* no draft is made of the sources collected so far and nothing is returned.
C11_SearchFailureAborts ==
    SearchFailed =>
        /\ pc = "failed"
        /\ error = SearchError
        /\ Len(search_log) = qi
        /\ Len(fetched) = qi - 1
        /\ DraftCalls = 0
        /\ ReflectCalls = 0
        /\ draft = None
        /\ improved_draft = <<>>
        /\ ~Returned

\* The search of the second query raises after the first one brought sources.
C11_Witness ==
    /\ SearchFailed
    /\ pc = "failed"
    /\ Len(fetched) = 1
    /\ all_sources # <<>>

\* C12: when create_draft_from_sources has been called with no sources, it
\* has raised the empty-sources error without a generation call, and the
\* reflection is not called.
C12_EmptySourcesAbort ==
    (DraftInvoked /\ all_sources = <<>>) =>
        /\ pc = "failed"
        /\ error = NoSourcesError
        /\ DraftCalls = 0
        /\ ReflectCalls = 0
        /\ draft = None
        /\ ~Returned

\* Both queries of a plan were searched and neither brought a source.
C12_Witness ==
    /\ pc = "failed"
    /\ error = NoSourcesError
    /\ Len(queries) = 2
    /\ Len(fetched) = 2

\* The response has this tag.
Has(tag) == Contains(response_text, tag)

\* The parse has returned its pair.
Parsed == pc = "done"

\* t is a text made of elements of the response.
IsTextOf(t, resp) ==
    /\ DOMAIN t = 1..Len(t)
    /\ \A i \in 1..Len(t) : \E j \in 1..Len(resp) : t[i] = resp[j]

\* C13: the parse of any response never raises, and returns a pair: a
\* revised draft that is a text of the response, and a change summary that
\* is a text of the response or one of the three made-up summaries.
C13_ParseTotal ==
    /\ pc # "failed"
    /\ error = ""
    /\ Parsed =>
          /\ Len(improved_draft) = 2
          /\ IsTextOf(improved_draft[1], response_text)
          /\ \/ improved_draft[2] \in {SummaryNotFound, SummaryNotParsed, SummaryNotRecognized}
             \/ IsTextOf(improved_draft[2], response_text)

\* The parse has returned for a response with both opening tags and no
\* "[/IMPROVED_DRAFT]".
C13_Witness ==
    /\ Parsed
    /\ Has(TagDraft) /\ Has(TagChanges)
    /\ ~Has(TagDraftEnd) /\ ~Has(TagChangesEnd)

\* The occurrences of a tag in a response, and the place of its only one.
Count(text, tag) == Cardinality({ i \in 1..Len(text) : text[i] = tag })
Pos(text, tag) == CHOOSE i \in 1..Len(text) : text[i] = tag

\* Each tag occurs once, in the order the prompt asks for.
InExpectedOrder(text) ==
    /\ \A tag \in Tags : Count(text, tag) = 1
    /\ Pos(text, TagDraft) < Pos(text, TagDraftEnd)
    /\ Pos(text, TagDraftEnd) < Pos(text, TagChanges)
    /\ Pos(text, TagChanges) < Pos(text, TagChangesEnd)

\* The text between the only occurrences of two tags.
Between(text, open, close) == SubSeq(text, Pos(text, open) + 1, Pos(text, close) - 1)

\* C14: for a response with the two delimiter pairs in the expected order,
\* the parse returns the stripped text between "[IMPROVED_DRAFT]" and
\* "[/IMPROVED_DRAFT]" and the stripped text between "[CHANGES_SUMMARY]" and
\* "[/CHANGES_SUMMARY]"; for the response of the prompt's example it returns
\* ("Hello", "None").
C14_WellFormedParsed ==
    /\ (Parsed /\ InExpectedOrder(response_text)) =>
          improved_draft = << Strip(Between(response_text, TagDraft, TagDraftEnd)),
                              Strip(Between(response_text, TagChanges, TagChangesEnd)) >>
    /\ (Parsed /\ response_text = ResponseWellFormed) =>
          improved_draft = << <<"H", "e", "l", "l", "o">>, <<"N", "o", "n", "e">> >>

\* The example response has been parsed.
C14_Witness ==
    /\ Parsed
    /\ response_text = ResponseWellFormed
    /\ improved_draft[1] = <<"H", "e", "l", "l", "o">>

\* C15: for a response without "[IMPROVED_DRAFT]" or without
\* "[CHANGES_SUMMARY]" the parse returns the response as it is and the
\* summary "Response format not recognized. Full response treated as draft.".
C15_NoOpeningTagFallback ==
    (Parsed /\ (~Has(TagDraft) \/ ~Has(TagChanges))) =>
        improved_draft = << response_text, SummaryNotRecognized >>

\* "just some text" has been parsed.
C15_Witness ==
    /\ Parsed
    /\ response_text = ResponsePlain
    /\ improved_draft = << ResponsePlain, SummaryNotRecognized >>

\* A delimiter pair is incomplete: its opening or its closing tag is missing.
PairIncomplete(open, close) == ~Has(open) \/ ~Has(close)

\* A delimiter pair is missing entirely: neither of its tags occurs.
PairMissing(open, close) == ~Has(open) /\ ~Has(close)

\* The parse returned the whole response and the not-recognized summary.
FellBack == improved_draft = << response_text, SummaryNotRecognized >>

C17_SeparateSummaryField ==
    Returned =>
        /\ "improved_draft" \in DOMAIN result
        /\ "changes_summary" \in DOMAIN result
        /\ result.improved_draft = improved_draft[1]
        /\ result.changes_summary = improved_draft[2]

\* The callers whose generation call raised.
DraftCallRaised == \E i \in 1..Len(gen_errors) : gen_errors[i] = "create_draft_from_sources"
ReflectCallRaised == \E i \in 1..Len(gen_errors) : gen_errors[i] = "validate_and_improve"

StageOf(p) ==
    CASE p = "split" -> 1
      [] p \in {"collect", "merge"} -> 2
      [] p = "draft" -> 3
      [] p \in {"reflect", "parse"} -> 4
      [] p = "done" -> 5
      [] OTHER -> 0

\* The caller of the generation call each stage may make.
CallerOf(stage) ==
    CASE stage = 1 -> "split_query"
      [] stage = 3 -> "create_draft_from_sources"
      [] stage = 4 -> "validate_and_improve"
      [] OTHER -> "none"

\* One step of the workflow keeps the order of the stages.
StagesInOrder ==
    /\ pc \notin {"done", "failed"}
    /\ pc' # "failed" => StageOf(pc') \in {StageOf(pc), StageOf(pc) + 1}
    /\ StageOf(pc') = 2 => queries' # <<>>
    /\ StageOf(pc') = 3 => qi' > Len(queries')
    /\ StageOf(pc') = 4 => DraftCalls' = 1
    /\ queries' # queries => StageOf(pc) = 1
    /\ search_log' # search_log =>
          /\ StageOf(pc) = 2
          /\ search_log' = Append(search_log, << queries[qi], max_sources_per_query >>)
    /\ all_sources' # all_sources => StageOf(pc) = 2
    /\ draft' # draft => StageOf(pc) = 3
    /\ improved_draft' # improved_draft => StageOf(pc) = 4
    /\ gen_log' # gen_log =>
          /\ gen_log' = Append(gen_log, CallerOf(StageOf(pc)))
          /\ \A i \in 1..Len(gen_log) : gen_log[i] # CallerOf(StageOf(pc))

\* C19: every step of a run stays in its stage or starts the next one, in
\* the order planning, collection, synthesis, reflection, and no step
\* follows the return or the failure; a stage starts on the finished output
\* of the one before (the plan is not empty, every query was searched, the
\* synthesis made its call), each output is written only in its own stage,
\* the searches are those of the planned queries, and each stage makes its
\* generation call at most once.
C19_StagesInOrder == [][StagesInOrder]_vars

\* A run went through the four stages with a plan of two queries.
C19_Witness ==
    /\ pc = "done"
    /\ Len(queries) = 2
    /\ gen_log = << "split_query", "create_draft_from_sources", "validate_and_improve" >>
    /\ Len(search_log) = 2

\* The digits a line starts with.
RECURSIVE LeadingDigits(_)
LeadingDigits(line) ==
    IF line # <<>> /\ IsDigit(Head(line)) THEN 1 + LeadingDigits(Tail(line)) ELSE 0

\* A line without its leading ordinal marker, "N." or "- ", and nothing
\* else cut.
WithoutMarker(line) ==
    IF line[1] = "-"
    THEN Strip(LStrip(line, {"-", " "}))
    ELSE LET n == LeadingDigits(line)
             rest == SubSeq(line, n + 1, Len(line))
         IN  IF rest # <<>> /\ rest[1] = "." THEN Strip(Tail(rest)) ELSE Strip(rest)

\* The queries of a response when each marked line gives the text after its
\* marker, if that is longer than 10 characters.
RECURSIVE MarkedLines(_)
MarkedLines(lines) ==
    IF lines = <<>> THEN <<>>
    ELSE LET line == Strip(Head(lines))
             query == IF line # <<>> /\ (IsDigit(line[1]) \/ line[1] = "-")
                      THEN WithoutMarker(line)
                      ELSE <<>>
         IN  (IF Len(query) > MinQueryLen THEN << query >> ELSE <<>>)
                 \o MarkedLines(Tail(lines))

\* C20: when split_query has parsed a response, its queries are, in the
\* order of the response, the texts left of the marked lines after their
\* leading marker, those longer than 10 characters ([topic] if there is
\* none): nothing else of a line is cut.
C20_OnlyMarkerStripped ==
    (JustPlanned /\ gen_outcome.kind = "text") =>
        queries = OrTopic(topic, MarkedLines(Split(Strip(gen_outcome.text), "\n")))

\* ------------------------------------------------- claims C21 to C30

\* C21: every query split_query returned is at most max_query_length long,
\* whether it came from the short-circuit, from the parsed response or from
\* a fallback to [topic].
C21_QueriesWithinLength ==
    Planned => \A i \in 1..Len(queries) : Len(queries[i]) <= max_query_length

\* The response after the first "[IMPROVED_DRAFT]", and a text up to the
\* first occurrence of a tag (the whole text when the tag does not occur).
Remainder(text) == AfterFirst(text, TagDraft)
UpTo(text, tag) == Split(text, tag)[1]

\* C22 as stated: for a response with "[IMPROVED_DRAFT]" and no
\* "[CHANGES_SUMMARY]" after it, the parse returns the stripped text from the
\* first "[IMPROVED_DRAFT]" up to "[/IMPROVED_DRAFT]" and the summary
\* "Changes summary not found in response.".
C22_AsStated ==
    (Parsed /\ Has(TagDraft) /\ ~Contains(Remainder(response_text), TagChanges)) =>
        improved_draft = << Strip(UpTo(Remainder(response_text), TagDraftEnd)),
                            SummaryNotFound >>

\* C22: for a response with "[CHANGES_SUMMARY]", with "[IMPROVED_DRAFT]"
\* exactly once and no "[CHANGES_SUMMARY]" after it, the parse returns the
\* stripped text from "[IMPROVED_DRAFT]" up to "[/IMPROVED_DRAFT]" (up to the
\* end without that tag) and the summary "Changes summary not found in
\* response."; without any "[CHANGES_SUMMARY]" it falls back.
C22_SummaryNotFound ==
    /\ (Parsed /\ Count(response_text, TagDraft) = 1 /\ Has(TagChanges)
               /\ ~Contains(Remainder(response_text), TagChanges)) =>
          improved_draft = << Strip(UpTo(Remainder(response_text), TagDraftEnd)),
                              SummaryNotFound >>
    /\ (Parsed /\ Has(TagDraft) /\ ~Has(TagChanges)) => FellBack

\* The changes block precedes the draft block.
C22_Witness ==
    /\ Parsed
    /\ Count(response_text, TagDraft) = 1
    /\ Has(TagChanges) /\ Has(TagChangesEnd) /\ Has(TagDraftEnd)
    /\ ~Contains(Remainder(response_text), TagChanges)
    /\ improved_draft[2] = SummaryNotFound

\* One changes block, "[CHANGES_SUMMARY]" with a later "[/CHANGES_SUMMARY]",
\* occurs after the first "[IMPROVED_DRAFT]".
BlockInRemainder ==
    /\ Has(TagDraft)
    /\ Count(Remainder(response_text), TagChanges) = 1
    /\ Contains(AfterFirst(Remainder(response_text), TagChanges), TagChangesEnd)

\* C23: whenever a changes block occurs after the first "[IMPROVED_DRAFT]",
\* the summary is the stripped text of that block, also when
\* "[IMPROVED_DRAFT]" occurs again before it.
C23_SummaryFromRemainder ==
    (Parsed /\ BlockInRemainder) =>
        improved_draft[2] =
            Strip(UpTo(AfterFirst(Remainder(response_text), TagChanges), TagChangesEnd))

\* C24 as stated: no response makes the parse return the summary "Could not
\* parse changes summary from response.".
C24_AsStated == Parsed => improved_draft[2] # SummaryNotParsed

\* C24: no response makes the parse return the outcome of a split on
\* "[IMPROVED_DRAFT]" without a second part, the whole response with the
\* summary "Could not parse changes summary from response."; that summary is
\* returned only for a response that holds the sentence itself.
C24_BranchUnreachable ==
    Parsed =>
        /\ improved_draft # << response_text, SummaryNotParsed >>
        /\ improved_draft[2] = SummaryNotParsed => Has(SummaryNotParsed[1])

\* The response whose changes block is that sentence has been parsed.
C24_Witness ==
    /\ Parsed
    /\ response_text = ResponseEcho
    /\ improved_draft = << <<"x">>, SummaryNotParsed >>

\* The first n elements of a text, the whole text when it is shorter.
IsPrefixOfLen(cut, content, n) ==
    /\ Len(cut) = IF Len(content) < n THEN Len(content) ELSE n
    /\ \A k \in 1..Len(cut) : cut[k] = content[k]

\* One call of create_draft_from_sources with sources: the prompt has one
\* entry for each source, in their order, and the sources stay as they are.
SourcesEmbedded ==
    (pc = "draft" /\ all_sources # <<>>) =>
        /\ Len(prompt_sources') = Len(all_sources)
        /\ \A i \in 1..Len(all_sources) :
              /\ prompt_sources'[i].tag = i
              /\ prompt_sources'[i].title = all_sources[i].title
              /\ prompt_sources'[i].url = all_sources[i].url
              /\ IsPrefixOfLen(prompt_sources'[i].content, all_sources[i].content, 1000)
        /\ all_sources' = all_sources
        /\ fetched' = fetched

\* C25: create_draft_from_sources puts every source once into its prompt, in
\* the order of the sources, as Source 1 to Source n, each with its title,
\* its url and the first 1000 characters of its content, and leaves the
\* sources themselves unchanged.
C25_SourcesEmbedded == [][SourcesEmbedded]_vars

\* A source with more than 1000 characters of content is in the prompt
\* with 1000 of them, as the second of two sources, and is still whole.
C25_Witness ==
    /\ pc # "draft"
    /\ Len(prompt_sources) = 2
    /\ Len(all_sources[2].content) = 1001
    /\ Len(prompt_sources[2].content) = 1000
    /\ prompt_sources[2].tag = 2

\* One step of the workflow keeps the searches in step with the queries.
SearchesInOrder ==
    /\ Len(search_log') <= Len(queries')
    /\ \A i \in 1..Len(search_log') :
          search_log'[i] = << queries'[i], max_sources_per_query' >>
    /\ search_log' # search_log =>
          /\ Len(search_log') = Len(search_log) + 1
          /\ Len(fetched) = Len(search_log)
          /\ all_sources = CollectAll(fetched)
    /\ pc' \in {"draft", "reflect", "parse", "done"} =>
          Len(search_log') = Len(queries')

\* C26: the searches made are those of the queries, one each and in their
\* order, each asked for max_sources_per_query results; a search is made
\* only when every earlier search has returned and its sources are merged;
\* once the collection has returned there are as many searches as queries.
C26_OneSearchPerQuery == [][SearchesInOrder]_vars

\* Two different queries have been searched and the collection has returned.
C26_Witness ==
    /\ pc = "draft"
    /\ Len(queries) = 2
    /\ queries[1] # queries[2]
    /\ Len(search_log) = 2
    /\ Len(all_sources) >= 2

\* The urls of the sources the searches of this invocation returned.
FetchedUrls == { Flatten(fetched)[i].url : i \in 1..Len(Flatten(fetched)) }

\* The invocation has ended, with a result or an error.
Ended == pc \in {"done", "failed"}

\* C27: an invocation on an object that was used before starts with no seen
\* urls and sees only urls of its own searches, so that its sources are the
\* merge of what its own searches returned; and when it was given the
\* arguments and the answers of the invocation before, it ends as that one
\* did, with the same queries, sources, error and result.
C27_InvocationsIndependent ==
    /\ pc = "split" => seen_urls = {}
    /\ seen_urls \subseteq FetchedUrls
    /\ (pc = "draft" \/ Ended) /\ ~SearchFailed => all_sources = CollectAll(fetched)
    /\ (earlier.run /\ Ended /\ Given = earlier.given) => Outcome = earlier.outcome

\* The second invocation has collected the source with the url the first
\* one had seen, and has ended as the first one did.
C27_Witness ==
    /\ earlier.run
    /\ Ended
    /\ Given = earlier.given
    /\ pc = "done"
    /\ earlier.seen = {UrlA}
    /\ \E i \in 1..Len(all_sources) : all_sources[i].url = UrlA

\* The records the searches returned, in one set.
FetchedRecords == { Flatten(fetched)[i] : i \in 1..Len(Flatten(fetched)) }

\* One step of the workflow leaves the outputs of the earlier stages alone.
EarlierOutputsKept ==
    /\ pc # "split" => queries' = queries
    /\ /\ SubSeq(fetched', 1, Len(fetched)) = fetched
       /\ SubSeq(all_sources', 1, Len(all_sources)) = all_sources
       /\ \A i \in 1..Len(all_sources') : all_sources'[i] \in FetchedRecords'
    /\ pc \in {"draft", "reflect", "parse"} =>
          all_sources' = all_sources /\ fetched' = fetched
    /\ pc \in {"reflect", "parse"} => draft' = draft
    /\ pc' = "done" => result'.draft = draft

\* C28: no step changes the output of an earlier stage: the queries stay as
\* planned once the collection runs, what a search returned stays as it came
\* and the sources only grow by records a search returned, the sources stay
\* as collected during synthesis and reflection, the draft stays as made
\* during reflection, and the 'draft' of the result is that draft.
C28_EarlierOutputsKept == [][EarlierOutputsKept]_vars

\* A run has returned with the draft the synthesis made and the sources of
\* two searches.
C28_Witness ==
    /\ pc = "done"
    /\ result.draft = DraftText
    /\ Len(fetched) = 2
    /\ improved_draft[1] # draft
    /\ all_sources # <<>>

\* C29: with searches that return at most max_sources_per_query results, no
\* query brings more than max_sources_per_query sources, and a returned
\* sources_count is at most queries_count times max_sources_per_query.
C29_SourcesWithinLimit ==
    /\ \A i \in 1..Len(fetched) : Len(fetched[i]) <= max_sources_per_query
    /\ Returned => result.sources_count <= result.queries_count * max_sources_per_query

\* C30: when the caller has reported, it reports success exactly when the
\* four stages completed and execute_research_workflow returned its dict.
C30_SuccessReported ==
    answer.by # "none" => (answer.success <=> Returned)

====
